---------------------------- MODULE Spec2Model ----------------------------
(***************************************************************************)
(* Model of adversarial_robustness/jax/model_zoo.py: the WideResNet        *)
(* constructor, its forward pass (with the forward pass of every           *)
(* _WideResNetBlock it owns), and the mnist_normalize helper.              *)
(*                                                                         *)
(* A tensor of the forward pass is its shape together with the index of    *)
(* the tape entry that produced it (0: the caller's input).  The tape is   *)
(* the computation graph the forward pass builds, one entry per primitive  *)
(* applied.  Optional values (Python's None) are sequences of length 0     *)
(* or 1.  Lists keep the source's 0-based indices.                         *)
(***************************************************************************)
EXTENDS Integers, Sequences, FiniteSets, TLC

VARIABLES
  pc,               \* position in WideResNet.__init__ / __call__
  err,              \* the exception raised, "none" while none
  num_classes, depth, width, activation,   \* constructor arguments
  self_activation,  \* self._activation (Optional)
  self_conv,        \* self._conv       (Optional)
  self_bn,          \* self._bn         (Optional)
  self_linear,      \* self._linear     (Optional)
  self_blocks,      \* self._blocks     (Optional list of lists of blocks)
  inputs,           \* __call__ argument
  norm_kwargs,      \* __call__ keyword arguments (Optional)
  net,              \* local of WideResNet.__call__
  layer_num, blk,   \* the two loop positions of WideResNet.__call__
  x, orig_x, i,     \* locals of _WideResNetBlock.__call__
  shortcut_x,       \* local of _WideResNetBlock.__call__ (Optional)
  tape,             \* primitives applied so far in this forward pass
  raw_image,        \* the array the caller passes to mnist_normalize
  image,            \* the name "image" inside mnist_normalize (Optional)
  mnist_pc,         \* position in mnist_normalize
  mnist_out         \* value mnist_normalize returns (Optional)

vars == <<pc, err, num_classes, depth, width, activation, self_activation,
          self_conv, self_bn, self_linear, self_blocks, inputs, norm_kwargs,
          net, layer_num, blk, x, orig_x, i, shortcut_x, tape,
          raw_image, image, mnist_pc, mnist_out>>

netVars == <<pc, err, num_classes, depth, width, activation, self_activation,
             self_conv, self_bn, self_linear, self_blocks, inputs,
             norm_kwargs, net, layer_num, blk, x, orig_x, i, shortcut_x,
             tape>>

mnistVars == <<raw_image, image, mnist_pc, mnist_out>>

argVars == <<num_classes, depth, width, activation>>

moduleVars == <<self_conv, self_bn, self_linear, self_blocks>>

callVars == <<inputs, norm_kwargs, net, layer_num, blk>>

blockVars == <<x, orig_x, i, shortcut_x>>

----------------------------------------------------------------------------
(* Bounds of the model.                                                    *)

MaxDepth == 16        \* depth ranges over -MaxBelow .. MaxDepth
MaxBelow == 2
MaxWidth == 1         \* width ranges over 1 .. MaxWidth
MaxClasses == 2       \* num_classes ranges over 1 .. MaxClasses
MaxBatch == 1         \* batch size of the forward pass, 1 .. MaxBatch
MaxSize == 3          \* input heights: 1 .. MaxSize, and 32
MaxImgBatch == 1      \* mnist_normalize: batch size 1 .. MaxImgBatch
MaxImgSize == 2       \* mnist_normalize: height, width 1 .. MaxImgSize, and 28
MaxImgChan == 1       \* mnist_normalize: channels 1 .. MaxImgChan

\* 27, 28 and 10 are the depths and the width the documentation names
Depths == ((0 - MaxBelow) .. MaxDepth) \cup {27, 28}
Widths == (1 .. MaxWidth) \cup {10}
Classes == 1 .. MaxClasses
Sizes == (1 .. MaxSize) \cup {32}
\* (height, width) of the inputs: square, or of width 32
InputSizes == {<<h, w>> \in Sizes \X Sizes : w = h \/ w = 32}
InputChannels == {1, 3}
ImgSizes == (1 .. MaxImgSize) \cup {28}
\* element values count halves: 0, 1, 2 stand for 0.0, 0.5, 1.0
PixelValues == 0 .. 2

----------------------------------------------------------------------------
(* The jax.nn namespace, as far as getattr(jax.nn, name) and a call of the *)
(* result with one tensor can tell its members apart.                      *)

\* members that are elementwise nonlinearities
ElementwiseNames == {"relu"}
\* members that take one tensor and keep its shape but are not elementwise
ShapeKeepingNames == {"softmax"}
\* members that cannot be called with a single tensor
UncallableNames == {"one_hot"}
JaxNnAttrs == ElementwiseNames \cup ShapeKeepingNames \cup UncallableNames
\* names a caller may pass; "rleu" is no member of jax.nn
ActivationNames == JaxNnAttrs \cup {"rleu"}

HasAttr(name) == name \in JaxNnAttrs

CallableOnTensor(fn) == fn \in ElementwiseNames \cup ShapeKeepingNames

----------------------------------------------------------------------------
(* Module descriptors.                                                     *)

TopScope == [layer |-> -1, block |-> -1]

ModName(scope, base, idx) == [scope |-> scope, base |-> base, idx |-> idx]

DefaultNormArgs ==
  [create_offset |-> FALSE, create_scale |-> TRUE, decay_rate |-> 99]

BatchNorm(name, norm_args) == [name |-> name, args |-> norm_args]

\* hk.Conv2D; padding is 'SAME' where the source passes it and by Haiku's
\* default where it does not
Conv2D(output_channels, kernel, stride, name) ==
  [output_channels |-> output_channels, padding |-> "SAME",
   kernel_shape |-> <<kernel, kernel>>, stride |-> stride,
   with_bias |-> FALSE, name |-> name]

Linear(output_size, name) == [output_size |-> output_size, name |-> name]

NumBottleneckLayers == 1

StageStride(stride, s) == IF s = 0 THEN stride ELSE 1

\* _WideResNetBlock.__init__
WideResNetBlock(num_filters, stride, projection_shortcut, act, norm_args, name) ==
  [name |-> name,
   activation |-> act,
   bn_modules |-> [s \in 0 .. NumBottleneckLayers |->
                     BatchNorm(ModName(name, "batchnorm", s), norm_args)],
   conv_modules |-> [s \in 0 .. NumBottleneckLayers |->
                       Conv2D(num_filters, 3, StageStride(stride, s),
                              ModName(name, "conv", s))],
   shortcut |-> IF projection_shortcut
                  THEN <<Conv2D(num_filters, 1, stride,
                                ModName(name, "shortcut", -1))>>
                  ELSE <<>>]

\* the depth rule of the plain ResNet, 6n+2, in place of 6n+4
ValidDepth_ResNetRule(d) == (d - 2) % 6 = 0

ValidDepth(d) == (d - 4) % 6 = 0

\* counts convolutions, not blocks
BlocksPerLayer_PerConv(d) == (d - 4) \div 3

BlocksPerLayer(d) == (d - 4) \div 6

\* the width multiplier left out
FilterSizes_NoWidth(w) == [g \in 0 .. 2 |-> (<<16, 32, 64>>)[g + 1]]

FilterSizes(w) == [g \in 0 .. 2 |-> w * (<<16, 32, 64>>)[g + 1]]

\* downsamples in the first block of every group, group 0 included
BlockStride_EveryGroup(g, b) == IF b = 0 THEN 2 ELSE 1

BlockStride(g, b) == IF g # 0 /\ b = 0 THEN 2 ELSE 1

\* projection_shortcut left at the block's default, False
ProjectionShortcut_Never(b) == FALSE

ProjectionShortcut(b) == b = 0

\* the block's own default, activation=jax.nn.relu, instead of the argument
BlockActivation_Default(act) == "relu"

\* activation=self._activation
BlockActivation(act) == act

\* the nested loop of WideResNet.__init__ that fills self._blocks
BuildBlockList(d, w, act, norm_args) ==
  [g \in DOMAIN FilterSizes(w) |->
     [b \in 0 .. BlocksPerLayer(d) - 1 |->
        WideResNetBlock(FilterSizes(w)[g], BlockStride(g, b),
                        ProjectionShortcut(b), BlockActivation(act),
                        norm_args, [layer |-> g, block |-> b])]]

----------------------------------------------------------------------------
(* Tensors and the primitives of the tensor runtime (shapes only).         *)

NoTensor == [id |-> -1, shape |-> <<>>]

Tensor(id, shape) == [id |-> id, shape |-> shape]

\* output size of a convolution under 'SAME' padding
SameOut(size, stride) == (size + stride - 1) \div stride

ConvShape(conv, s) ==
  <<s[1], SameOut(s[2], conv.stride), SameOut(s[3], conv.stride),
    conv.output_channels>>

Max(a, b) == IF a >= b THEN a ELSE b

\* numpy broadcasting of two shapes of equal rank
Broadcastable(s, t) ==
  /\ Len(s) = Len(t)
  /\ \A k \in 1 .. Len(s) : s[k] = t[k] \/ s[k] = 1 \/ t[k] = 1

BroadcastShape(s, t) == [k \in 1 .. Len(s) |-> Max(s[k], t[k])]

\* averages over axis 1 only
MeanShape_OneAxis(s) == <<s[1], s[3], s[4]>>

\* jnp.mean(., axis=[1, 2]) of a 4-D array
MeanShape(s) == <<s[1], s[4]>>

\* hk.Linear maps the last axis and keeps the leading ones
LinearShape(lin, s) == Append(SubSeq(s, 1, Len(s) - 1), lin.output_size)

Entry(op, who, args, kw, shape) ==
  [op |-> op, who |-> who, args |-> args, kw |-> kw, shape |-> shape]

FnRef(fn) == ModName(TopScope, fn, -1)

\* the tensor a primitive returns: produced by the entry appended to the tape
Produced(shape) == Tensor(Len(tape) + 1, shape)

----------------------------------------------------------------------------
(* Arrays with their elements, for mnist_normalize.  An array is its shape  *)
(* and a function from 0-based index tuples to element values.             *)

Indices(shape) ==
  {<<a, b, c, d>> : a \in 0 .. shape[1] - 1, b \in 0 .. shape[2] - 1,
                    c \in 0 .. shape[3] - 1, d \in 0 .. shape[4] - 1}

Array(shape, data) == [shape |-> shape, data |-> data]

NoArray == [shape |-> <<0, 0, 0, 0>>, data |-> <<>>]

\* the widths shifted by one axis: batch and height padded
PadWidths_Shifted == <<<<2, 2>>, <<2, 2>>, <<0, 0>>, <<0, 0>>>>

\* the pad widths mnist_normalize passes: ((0, 0), (2, 2), (2, 2), (0, 0))
PadWidths == <<<<0, 0>>, <<2, 2>>, <<2, 2>>, <<0, 0>>>>

\* jnp.pad(a, pads, 'constant', constant_values=value)
Pad(a, pads, value) ==
  LET shape == [k \in 1 .. 4 |-> a.shape[k] + pads[k][1] + pads[k][2]]
      src(p) == [k \in 1 .. 4 |-> p[k] - pads[k][1]]
      el(p) == IF src(p) \in DOMAIN a.data THEN a.data[src(p)] ELSE value
  IN  Array(shape, [p \in Indices(shape) |-> el(p)])

\* a - .5, elementwise (one half is 1)
SubHalf(a) == [a EXCEPT !.data = [p \in DOMAIN a.data |-> a.data[p] - 1]]

\* a * 2., elementwise
TimesTwo(a) == [a EXCEPT !.data = [p \in DOMAIN a.data |-> a.data[p] * 2]]

----------------------------------------------------------------------------
(* WideResNet.__init__                                                     *)

\* the constructor has been entered with these arguments (norm_args and
\* name left at None) and super().__init__ has run; nothing is assigned yet
Init ==
  /\ pc = "init_depth"
  /\ err = "none"
  /\ num_classes \in Classes
  /\ depth \in Depths
  /\ width \in Widths
  /\ activation \in ActivationNames
  /\ self_activation = <<>>
  /\ self_conv = <<>>
  /\ self_bn = <<>>
  /\ self_linear = <<>>
  /\ self_blocks = <<>>
  /\ inputs = NoTensor
  /\ norm_kwargs = <<>>
  /\ net = NoTensor
  /\ layer_num = 0
  /\ blk = 0
  /\ x = NoTensor
  /\ orig_x = NoTensor
  /\ i = 0
  /\ shortcut_x = <<>>
  /\ tape = <<>>
  /\ raw_image = NoArray
  /\ image = <<>>
  /\ mnist_pc = "idle"
  /\ mnist_out = <<>>

Raise(kind) == pc' = "raised" /\ err' = kind

\* if (depth - 4) % 6 != 0: raise ValueError
ValidateDepth ==
  /\ pc = "init_depth"
  /\ IF ValidDepth(depth)
       THEN pc' = "init_activation" /\ err' = err
       ELSE Raise("ValueError")
  /\ UNCHANGED <<argVars, self_activation, moduleVars, callVars, blockVars,
                 tape, mnistVars>>

\* self._activation = getattr(jax.nn, activation)
ResolveActivation ==
  /\ pc = "init_activation"
  /\ IF HasAttr(activation)
       THEN /\ self_activation' = <<activation>>
            /\ pc' = "init_modules"
            /\ err' = err
       ELSE /\ self_activation' = self_activation
            /\ Raise("AttributeError")
  /\ UNCHANGED <<argVars, moduleVars, callVars, blockVars, tape, mnistVars>>

\* self._conv, self._bn, self._linear
BuildModules ==
  /\ pc = "init_modules"
  /\ self_conv' = <<Conv2D(16, 3, 1, ModName(TopScope, "init_conv", -1))>>
  /\ self_bn' = <<BatchNorm(ModName(TopScope, "batchnorm", -1),
                            DefaultNormArgs)>>
  /\ self_linear' = <<Linear(num_classes, ModName(TopScope, "logits", -1))>>
  /\ pc' = "init_blocks"
  /\ UNCHANGED <<err, argVars, self_activation, self_blocks, callVars,
                 blockVars, tape, mnistVars>>

\* blocks_per_layer, filter_sizes and the loops that fill self._blocks
BuildBlocks ==
  /\ pc = "init_blocks"
  /\ self_blocks' = <<BuildBlockList(depth, width, self_activation[1],
                                     DefaultNormArgs)>>
  /\ pc' = "constructed"
  /\ UNCHANGED <<err, argVars, self_activation, self_conv, self_bn,
                 self_linear, callVars, blockVars, tape, mnistVars>>

----------------------------------------------------------------------------
(* WideResNet.__call__ and, inlined at its call site, the                  *)
(* _WideResNetBlock.__call__ of the block the loop is at.                  *)

Record(op, who, args, kw, shape) ==
  tape' = Append(tape, Entry(op, who, args, kw, shape))

\* the block the loops of __call__ are at
CurBlock == self_blocks[1][layer_num][blk]

\* the keyword arguments a batch-norm of the network is called with
BnKwargs(kw) == kw

\* the loop leaves a group out
NextLayer_Skip(g) == g + 2

\* the loop "for blocks_of_layer in self._blocks" moves on
NextLayer(g) == g + 1

\* the shortcut reads the raw block input: orig_x is never rebound
CaptureHere_Never(block, stage) == FALSE

\* "if self._shortcut is not None and i == 0"
CaptureHere(block, stage) == Len(block.shortcut) > 0 /\ stage = 0

Call ==
  /\ pc = "constructed"
  /\ \E n \in 1 .. MaxBatch, hw \in InputSizes, c \in InputChannels,
        t \in BOOLEAN :
       /\ inputs' = Tensor(0, <<n, hw[1], hw[2], c>>)
       /\ norm_kwargs' = <<[is_training |-> t]>>
  /\ net' = inputs'
  /\ tape' = <<>>
  /\ pc' = "call_conv"
  /\ UNCHANGED <<err, argVars, self_activation, moduleVars, layer_num, blk,
                 blockVars, mnistVars>>

\* net = self._conv(net)
InitConv ==
  /\ pc = "call_conv"
  /\ LET shape == ConvShape(self_conv[1], net.shape) IN
       /\ net' = Produced(shape)
       /\ Record("conv", self_conv[1].name, <<net.id>>, <<>>, shape)
  /\ layer_num' = 0
  /\ blk' = 0
  /\ pc' = "call_loop"
  /\ UNCHANGED <<err, argVars, self_activation, moduleVars, inputs,
                 norm_kwargs, blockVars, mnistVars>>

\* the two for-loops over self._blocks; entering a block binds x and orig_x
LoopBlocks ==
  /\ pc = "call_loop"
  /\ IF layer_num \notin DOMAIN self_blocks[1]
       THEN /\ pc' = "call_bn"
            /\ layer_num' = 0
            /\ blk' = 0
            /\ UNCHANGED blockVars
       ELSE IF blk \notin DOMAIN self_blocks[1][layer_num]
              THEN /\ layer_num' = NextLayer(layer_num)
                   /\ blk' = 0
                   /\ UNCHANGED <<pc, blockVars>>
              ELSE /\ x' = net
                   /\ orig_x' = net
                   /\ i' = 0
                   /\ pc' = "block_bn"
                   /\ UNCHANGED <<layer_num, blk, shortcut_x>>
  /\ UNCHANGED <<err, argVars, self_activation, moduleVars, inputs,
                 norm_kwargs, net, tape, mnistVars>>

\* x = bn(x, **norm_kwargs)
BlockBN ==
  /\ pc = "block_bn"
  /\ x' = Produced(x.shape)
  /\ Record("bn", CurBlock.bn_modules[i].name, <<x.id>>,
            BnKwargs(norm_kwargs), x.shape)
  /\ pc' = "block_act"
  /\ UNCHANGED <<err, argVars, self_activation, moduleVars, callVars, orig_x,
                 i, shortcut_x, mnistVars>>

\* x = self._activation(x); if self._shortcut is not None and i == 0: orig_x = x
BlockAct ==
  /\ pc = "block_act"
  /\ IF CallableOnTensor(CurBlock.activation)
       THEN /\ x' = Produced(x.shape)
            /\ Record("act", FnRef(CurBlock.activation), <<x.id>>, <<>>,
                      x.shape)
            /\ orig_x' = IF CaptureHere(CurBlock, i) THEN x' ELSE orig_x
            /\ pc' = "block_conv"
            /\ err' = err
       ELSE /\ Raise("TypeError")
            /\ UNCHANGED <<x, orig_x, tape>>
  /\ UNCHANGED <<argVars, self_activation, moduleVars, callVars, i,
                 shortcut_x, mnistVars>>

\* x = conv(x), and the stage loop moves on
BlockConv ==
  /\ pc = "block_conv"
  /\ LET conv == CurBlock.conv_modules[i]
         shape == ConvShape(conv, x.shape) IN
       /\ x' = Produced(shape)
       /\ Record("conv", conv.name, <<x.id>>, <<>>, shape)
  /\ i' = i + 1
  /\ pc' = IF i + 1 \in DOMAIN CurBlock.bn_modules
             /\ i + 1 \in DOMAIN CurBlock.conv_modules
             THEN "block_bn" ELSE "block_tail"
  /\ UNCHANGED <<err, argVars, self_activation, moduleVars, callVars, orig_x,
                 shortcut_x, mnistVars>>

\* shortcut_x = self._shortcut(orig_x)
BlockShortcut ==
  /\ pc = "block_tail"
  /\ Len(CurBlock.shortcut) > 0
  /\ LET conv == CurBlock.shortcut[1]
         shape == ConvShape(conv, orig_x.shape) IN
       /\ shortcut_x' = <<Produced(shape)>>
       /\ Record("conv", conv.name, <<orig_x.id>>, <<>>, shape)
  /\ pc' = "block_add"
  /\ UNCHANGED <<err, argVars, self_activation, moduleVars, callVars, x,
                 orig_x, i, mnistVars>>

\* x += other; return x  (back in __call__: net = block(net, ...))
AddAndReturn(other) ==
  IF Broadcastable(x.shape, other.shape)
    THEN /\ net' = Produced(BroadcastShape(x.shape, other.shape))
         /\ Record("add", FnRef("add"), <<x.id, other.id>>, <<>>,
                   BroadcastShape(x.shape, other.shape))
         /\ x' = NoTensor
         /\ orig_x' = NoTensor
         /\ i' = 0
         /\ shortcut_x' = <<>>
         /\ blk' = blk + 1
         /\ pc' = "call_loop"
         /\ err' = err
    ELSE /\ Raise("ShapeError")
         /\ UNCHANGED <<net, tape, blockVars, blk>>

\* x += shortcut_x
BlockAddShortcut ==
  /\ pc = "block_add"
  /\ AddAndReturn(shortcut_x[1])
  /\ UNCHANGED <<argVars, self_activation, moduleVars, inputs, norm_kwargs,
                 layer_num, mnistVars>>

\* x += orig_x
BlockAddIdentity ==
  /\ pc = "block_tail"
  /\ Len(CurBlock.shortcut) = 0
  /\ AddAndReturn(orig_x)
  /\ UNCHANGED <<argVars, self_activation, moduleVars, inputs, norm_kwargs,
                 layer_num, mnistVars>>

\* net = self._bn(net, **norm_kwargs)
FinalBN ==
  /\ pc = "call_bn"
  /\ net' = Produced(net.shape)
  /\ Record("bn", self_bn[1].name, <<net.id>>, BnKwargs(norm_kwargs),
            net.shape)
  /\ pc' = "call_act"
  /\ UNCHANGED <<err, argVars, self_activation, moduleVars, inputs,
                 norm_kwargs, layer_num, blk, blockVars, mnistVars>>

\* net = self._activation(net)
FinalAct ==
  /\ pc = "call_act"
  /\ IF CallableOnTensor(self_activation[1])
       THEN /\ net' = Produced(net.shape)
            /\ Record("act", FnRef(self_activation[1]), <<net.id>>, <<>>,
                      net.shape)
            /\ pc' = "call_mean"
            /\ err' = err
       ELSE /\ Raise("TypeError")
            /\ UNCHANGED <<net, tape>>
  /\ UNCHANGED <<argVars, self_activation, moduleVars, inputs, norm_kwargs,
                 layer_num, blk, blockVars, mnistVars>>

\* net = jnp.mean(net, axis=[1, 2])
Mean ==
  /\ pc = "call_mean"
  /\ net' = Produced(MeanShape(net.shape))
  /\ Record("mean", FnRef("mean"), <<net.id>>, <<>>, MeanShape(net.shape))
  /\ pc' = "call_linear"
  /\ UNCHANGED <<err, argVars, self_activation, moduleVars, inputs,
                 norm_kwargs, layer_num, blk, blockVars, mnistVars>>

\* return self._linear(net)
LinearAndReturn ==
  /\ pc = "call_linear"
  /\ LET shape == LinearShape(self_linear[1], net.shape) IN
       /\ net' = Produced(shape)
       /\ Record("linear", self_linear[1].name, <<net.id>>, <<>>, shape)
  /\ pc' = "returned"
  /\ UNCHANGED <<err, argVars, self_activation, moduleVars, inputs,
                 norm_kwargs, layer_num, blk, blockVars, mnistVars>>

Next ==
  \/ ValidateDepth
  \/ ResolveActivation
  \/ BuildModules
  \/ BuildBlocks
  \/ Call
  \/ InitConv
  \/ LoopBlocks
  \/ BlockBN
  \/ BlockAct
  \/ BlockConv
  \/ BlockShortcut
  \/ BlockAddShortcut
  \/ BlockAddIdentity
  \/ FinalBN
  \/ FinalAct
  \/ Mean
  \/ LinearAndReturn

Spec == Init /\ [][Next]_vars

----------------------------------------------------------------------------
(* mnist_normalize                                                         *)

\* the caller's arrays: every element is `back` except the one at `at`
InputImages ==
  {Array(<<n, h, w, c>>,
         [p \in Indices(<<n, h, w, c>>) |->
            IF p = (IF last THEN <<n - 1, h - 1, w - 1, c - 1>>
                            ELSE <<0, 0, 0, 0>>)
              THEN spot ELSE back]) :
     n \in 1 .. MaxImgBatch, h \in ImgSizes, w \in ImgSizes,
     c \in 1 .. MaxImgChan, back \in PixelValues, spot \in PixelValues,
     last \in BOOLEAN}

\* mnist_normalize has been entered with this array; no network exists
InitMnist ==
  /\ pc = "unused"
  /\ err = "none"
  /\ num_classes = 0
  /\ depth = 0
  /\ width = 0
  /\ activation = ""
  /\ self_activation = <<>>
  /\ self_conv = <<>>
  /\ self_bn = <<>>
  /\ self_linear = <<>>
  /\ self_blocks = <<>>
  /\ inputs = NoTensor
  /\ norm_kwargs = <<>>
  /\ net = NoTensor
  /\ layer_num = 0
  /\ blk = 0
  /\ x = NoTensor
  /\ orig_x = NoTensor
  /\ i = 0
  /\ shortcut_x = <<>>
  /\ tape = <<>>
  /\ raw_image \in InputImages
  /\ image = <<raw_image>>
  /\ mnist_pc = "pad"
  /\ mnist_out = <<>>

\* image = jnp.pad(image, ((0, 0), (2, 2), (2, 2), (0, 0)), 'constant', constant_values=0)
MnistPad ==
  /\ mnist_pc = "pad"
  /\ image' = <<Pad(image[1], PadWidths, 0)>>
  /\ mnist_pc' = "scale"
  /\ UNCHANGED <<raw_image, mnist_out, netVars>>

\* return (image - .5) * 2.
MnistScale ==
  /\ mnist_pc = "scale"
  /\ mnist_out' = <<TimesTwo(SubHalf(image[1]))>>
  /\ mnist_pc' = "returned"
  /\ UNCHANGED <<raw_image, image, netVars>>

NextMnist == MnistPad \/ MnistScale

SpecMnist == InitMnist /\ [][NextMnist]_vars

----------------------------------------------------------------------------
(* Vocabulary of the properties.                                           *)

InCall ==
  pc \in {"call_conv", "call_loop", "block_bn", "block_act", "block_conv",
          "block_tail", "block_add", "call_bn", "call_act", "call_mean",
          "call_linear", "returned"}

InBlock ==
  pc \in {"block_bn", "block_act", "block_conv", "block_tail", "block_add"}

ConstructionFailed == pc = "raised" /\ err \in {"ValueError", "AttributeError"}

NothingBuilt ==
  /\ self_conv = <<>>
  /\ self_bn = <<>>
  /\ self_linear = <<>>
  /\ self_blocks = <<>>

DepthIs6nPlus4 == \E n \in -10 .. 10 : depth = 6 * n + 4

\* the (g, b) pairs of the blocks self._blocks holds
BlockIds ==
  IF self_blocks = <<>> THEN {}
  ELSE UNION {{<<g, b>> : b \in DOMAIN self_blocks[1][g]} :
                g \in DOMAIN self_blocks[1]}

\* the primitive applied last, when one has been applied
Applied == Len(tape) > 0

Last == tape[Len(tape)]

BlockAt(id) == self_blocks[1][id[1]][id[2]]

----------------------------------------------------------------------------
(* C1: construction raises ValueError exactly when depth is not of the     *)
(* form 6n+4 (27 is rejected, 28 accepted), and when it does, no           *)
(* convolution, batch-norm, linear layer or block list has been built.     *)
C1_DepthValidation ==
  /\ (pc = "raised" /\ err = "ValueError") => (~DepthIs6nPlus4 /\ NothingBuilt)
  /\ (~DepthIs6nPlus4 /\ pc # "init_depth") => (pc = "raised" /\ err = "ValueError")
  /\ DepthIs6nPlus4 => err # "ValueError"
  /\ (depth = 27 /\ pc # "init_depth") => ConstructionFailed
  /\ depth = 28 => err # "ValueError"

C1_Witness ==
  /\ depth = 27
  /\ pc = "raised"
  /\ err = "ValueError"
  /\ NothingBuilt

----------------------------------------------------------------------------
(* C5 as stated: for every depth that passes validation the network has    *)
(* 3 groups of exactly (depth-4)/6 blocks each.                            *)
C5_AsStated ==
  self_blocks # <<>> =>
    /\ Cardinality(DOMAIN self_blocks[1]) = 3
    /\ \A g \in DOMAIN self_blocks[1] :
         6 * Cardinality(DOMAIN self_blocks[1][g]) = depth - 4

(* C5, amended: for every depth that passes validation the network has     *)
(* 3 groups; each holds exactly (depth-4)/6 blocks when depth >= 4 and no  *)
(* block when depth < 4 (a negative depth of the form 6n+4 passes          *)
(* validation); depth 28 gives 4 blocks per group, 12 in all, beside one   *)
(* initial convolution, one final batch-norm and one linear layer.         *)
C5_BlockCount ==
  self_blocks # <<>> =>
    /\ DOMAIN self_blocks[1] = 0 .. 2
    /\ \A g \in DOMAIN self_blocks[1] :
         /\ depth >= 4 => 6 * Cardinality(DOMAIN self_blocks[1][g]) = depth - 4
         /\ depth < 4 => Cardinality(DOMAIN self_blocks[1][g]) = 0
         /\ \E n \in 0 .. 20 : DOMAIN self_blocks[1][g] = 0 .. n - 1
    /\ depth >= 4 => 2 * Cardinality(BlockIds) = depth - 4
    /\ depth = 28 => Cardinality(BlockIds) = 12
    /\ Len(self_conv) = 1 /\ Len(self_bn) = 1 /\ Len(self_linear) = 1

C5_Witness ==
  /\ pc = "constructed"
  /\ depth = 28
  /\ width = 10
  /\ \A g \in 0 .. 2 : DOMAIN self_blocks[1][g] = 0 .. 3
  /\ Cardinality(BlockIds) = 12

----------------------------------------------------------------------------
(* C6 as stated: with a valid depth, a name that is not an elementwise     *)
(* nonlinearity makes construction fail with a lookup error.               *)
C6_AsStated ==
  (DepthIs6nPlus4 /\ activation \notin ElementwiseNames
     /\ pc \notin {"init_depth", "init_activation"})
    => (pc = "raised" /\ err = "AttributeError")

(* C6, amended: the name is looked up in the jax.nn namespace during       *)
(* construction, after the depth check.  With a valid depth, a name that   *)
(* is no attribute of jax.nn makes construction fail with a lookup error   *)
(* before anything is built and before any forward pass; every attribute   *)
(* of jax.nn, elementwise nonlinearity or not, is accepted, and the object *)
(* found is the activation of every block and the final activation.        *)
C6_ActivationLookup ==
  /\ (pc = "raised" /\ err = "AttributeError")
       => /\ DepthIs6nPlus4
          /\ activation \notin JaxNnAttrs
          /\ self_activation = <<>>
          /\ NothingBuilt
          /\ tape = <<>> /\ inputs = NoTensor
  /\ (DepthIs6nPlus4 /\ activation \notin JaxNnAttrs
        /\ pc \notin {"init_depth", "init_activation"})
       => (pc = "raised" /\ err = "AttributeError")
  /\ (activation \in JaxNnAttrs /\ DepthIs6nPlus4
        /\ pc \notin {"init_depth", "init_activation"})
       => (self_activation = <<activation>> /\ ~ConstructionFailed)
  /\ pc = "constructed" => \A id \in BlockIds : BlockAt(id).activation = activation
  /\ (Applied /\ Last.op = "act") => Last.who.base = activation

C6_Witness ==
  /\ activation = "softmax"
  /\ pc = "returned"
  /\ depth >= 10
  /\ \A id \in BlockIds : BlockAt(id).activation = "softmax"
  /\ tape[Len(tape) - 2].op = "act"
  /\ tape[Len(tape) - 2].who.base = "softmax"

----------------------------------------------------------------------------
(* Reading the tape.                                                       *)

\* shape of the tensor with this id
ShapeOf(id) == IF id = 0 THEN inputs.shape ELSE tape[id].shape

\* the shape stage s of a block gives a tensor, by its own stride and filters
ConvOut(shape, block, s) ==
  <<shape[1],
    IF block.conv_modules[s].stride = 2 THEN (shape[2] + 1) \div 2 ELSE shape[2],
    IF block.conv_modules[s].stride = 2 THEN (shape[3] + 1) \div 2 ELSE shape[3],
    block.conv_modules[s].output_channels>>

CeilHalf(n) == (n + 1) \div 2

GroupFilters(g) == IF g = 0 THEN width * 16 ELSE IF g = 1 THEN width * 32 ELSE width * 64

\* the convolutions of the first block of groups 1 and 2 that carry its stride
Downsamples(e) ==
  /\ e.op = "conv"
  /\ e.who.scope.layer \in {1, 2}
  /\ e.who.scope.block = 0
  /\ (e.who.base = "conv" /\ e.who.idx = 0) \/ e.who.base = "shortcut"

\* blocks of groups 1 and 2 that have returned when the loop is at (g, b)
DownsamplingsDone(g, b) ==
  Cardinality({d \in {1, 2} : \E id \in BlockIds : id[1] = d
                 /\ (d < g \/ (d = g /\ b >= 1))})

HalvedTimes(n, times) ==
  IF times = 0 THEN n
  ELSE IF times = 1 THEN CeilHalf(n) ELSE CeilHalf(CeilHalf(n))

----------------------------------------------------------------------------
(* C2: with a valid depth, a positive width and an elementwise activation  *)
(* name, construction raises nothing, and a forward pass on an input of    *)
(* shape (N, 32, 32, 3) raises nothing and returns shape (N, num_classes). *)
C2_OutputShape ==
  (DepthIs6nPlus4 /\ width > 0 /\ activation \in ElementwiseNames) =>
    /\ ~ConstructionFailed
    /\ (inputs.shape # <<>> /\ SubSeq(inputs.shape, 2, 4) = <<32, 32, 3>>) =>
         /\ err = "none"
         /\ pc # "raised"
         /\ pc = "returned" => net.shape = <<inputs.shape[1], num_classes>>

C2_Witness ==
  /\ depth = 28
  /\ width = 10
  /\ pc = "returned"
  /\ inputs.shape = <<1, 32, 32, 3>>
  /\ net.shape = <<1, num_classes>>

----------------------------------------------------------------------------
(* C3 as stated: the spatial size is exactly halved by the first block of  *)
(* groups 1 and 2 and constant elsewhere, and a 32x32 input is 8x8 when    *)
(* the blocks are done.                                                    *)
C3_AsStated ==
  /\ (Applied /\ Len(Last.shape) = 4) =>
       LET in == ShapeOf(Last.args[1]) IN
         IF Downsamples(Last)
           THEN 2 * Last.shape[2] = in[2] /\ 2 * Last.shape[3] = in[3]
           ELSE Last.shape[2] = in[2] /\ Last.shape[3] = in[3]
  /\ (pc = "call_bn" /\ inputs.shape[2] = 32 /\ inputs.shape[3] = 32)
       => (net.shape[2] = 8 /\ net.shape[3] = 8)

(* C3, amended: a size n becomes ceil(n/2), which is n/2 for even n,       *)
(* exactly at the first block of groups 1 and 2 (in its stage-0            *)
(* convolution and its shortcut convolution, once on each path) and stays  *)
(* constant at every other step before pooling; a network of depth < 10    *)
(* has no blocks and never changes the size.  For a 32x32 input and        *)
(* depth >= 10 the sizes are 32x32 in group 0, 16x16 in group 1 and 8x8    *)
(* in group 2 and up to the pooling.                                       *)
C3_SpatialSize ==
  /\ (Applied /\ Len(Last.shape) = 4) =>
       LET in == ShapeOf(Last.args[1]) IN
         IF Downsamples(Last)
           THEN /\ Last.shape[2] = CeilHalf(in[2])
                /\ Last.shape[3] = CeilHalf(in[3])
           ELSE /\ Last.shape[2] = in[2]
                /\ Last.shape[3] = in[3]
  /\ pc \in {"call_loop", "call_bn", "call_act", "call_mean"} =>
       LET done == IF pc = "call_loop" THEN DownsamplingsDone(layer_num, blk)
                                       ELSE DownsamplingsDone(3, 0) IN
         /\ net.shape[2] = HalvedTimes(inputs.shape[2], done)
         /\ net.shape[3] = HalvedTimes(inputs.shape[3], done)
  /\ (depth < 10 /\ InCall /\ Len(net.shape) = 4)
       => SubSeq(net.shape, 2, 3) = SubSeq(inputs.shape, 2, 3)
  /\ (depth >= 10 /\ inputs.shape # <<>> /\ SubSeq(inputs.shape, 2, 3) = <<32, 32>>)
       => /\ (InBlock /\ layer_num = 0) => SubSeq(x.shape, 2, 3) = <<32, 32>>
          /\ (pc = "call_loop" /\ layer_num = 1 /\ blk >= 1)
               => SubSeq(net.shape, 2, 3) = <<16, 16>>
          /\ (pc = "call_loop" /\ layer_num = 2 /\ blk >= 1)
               => SubSeq(net.shape, 2, 3) = <<8, 8>>
          /\ pc \in {"call_bn", "call_act", "call_mean"}
               => SubSeq(net.shape, 2, 3) = <<8, 8>>

C3_Witness ==
  /\ depth = 16
  /\ pc = "call_mean"
  /\ SubSeq(inputs.shape, 2, 3) = <<32, 32>>
  /\ SubSeq(net.shape, 2, 3) = <<8, 8>>
  /\ \E k \in 1 .. Len(tape) :
       /\ Downsamples(tape[k])
       /\ tape[k].who.scope.layer = 1
       /\ tape[k].shape[2] = 16
       /\ ShapeOf(tape[k].args[1])[2] = 32

----------------------------------------------------------------------------
(* C4: every block of group g returns width*16, width*32, width*64         *)
(* channels for g = 0, 1, 2 and its convolutions are built with that       *)
(* filter count; the initial convolution returns 16 channels; batch-norm,  *)
(* activation and the residual addition keep the channel count.            *)
C4_Channels ==
  /\ pc = "constructed" => \A id \in BlockIds :
       /\ \A s \in DOMAIN BlockAt(id).conv_modules :
            BlockAt(id).conv_modules[s].output_channels = GroupFilters(id[1])
       /\ \A s \in 1 .. Len(BlockAt(id).shortcut) :
            BlockAt(id).shortcut[s].output_channels = GroupFilters(id[1])
  /\ (pc = "call_loop" /\ blk >= 1) => net.shape[4] = GroupFilters(layer_num)
  /\ Applied => (tape[1].who.base = "init_conv" /\ tape[1].shape[4] = 16)
  /\ (Applied /\ Last.op \in {"bn", "act", "add"}) =>
       \A a \in 1 .. Len(Last.args) : ShapeOf(Last.args[a])[4] = Last.shape[4]
  /\ (Applied /\ Last.op = "conv" /\ Last.who.scope.layer >= 0) =>
       Last.shape[4] = GroupFilters(Last.who.scope.layer)

C4_Witness ==
  /\ width = 10
  /\ pc = "call_loop"
  /\ layer_num = 2
  /\ blk = 2
  /\ net.shape[4] = 640
  /\ tape[Len(tape)].op = "add"

----------------------------------------------------------------------------
(* C10: block b of group g is built with stride 2 iff g > 0 and b = 0 and  *)
(* with a projection shortcut iff b = 0; a block entered with a stride     *)
(* other than 1 or with an input whose channel count is not its filter     *)
(* count has a projection shortcut; every residual addition adds two       *)
(* tensors of one shape, whatever the input's channel count and size, and  *)
(* no shape error is raised.                                               *)
C10_ShortcutPrecondition ==
  /\ pc = "constructed" => \A id \in BlockIds :
       /\ BlockAt(id).conv_modules[0].stride = 2 <=> (id[1] > 0 /\ id[2] = 0)
       /\ BlockAt(id).conv_modules[0].stride \in {1, 2}
       /\ BlockAt(id).conv_modules[1].stride = 1
       /\ Len(BlockAt(id).shortcut) = 1 <=> id[2] = 0
       /\ Len(BlockAt(id).shortcut) = 1 =>
            BlockAt(id).shortcut[1].stride = BlockAt(id).conv_modules[0].stride
  /\ InBlock =>
       LET block == BlockAt(<<layer_num, blk>>) IN
         /\ (block.conv_modules[0].stride # 1
               \/ net.shape[4] # block.conv_modules[0].output_channels)
              => Len(block.shortcut) = 1
         /\ Len(block.shortcut) = 0 =>
              net.shape = ConvOut(ConvOut(net.shape, block, 0), block, 1)
  /\ pc = "block_add" => x.shape = shortcut_x[1].shape
  /\ (pc = "block_tail" /\ Len(BlockAt(<<layer_num, blk>>).shortcut) = 0)
       => x.shape = orig_x.shape
  /\ (Applied /\ Last.op = "add") =>
       /\ ShapeOf(Last.args[1]) = ShapeOf(Last.args[2])
       /\ Last.shape = ShapeOf(Last.args[1])
  /\ err # "ShapeError"

C10_Witness ==
  /\ pc = "call_loop"
  /\ layer_num = 2
  /\ blk = 2
  /\ inputs.shape[2] = 3
  /\ inputs.shape[3] = 32
  /\ inputs.shape[4] = 1
  /\ tape[Len(tape)].op = "add"
  /\ ShapeOf(tape[Len(tape)].args[2]) = <<inputs.shape[1], 1, 8, width * 64>>

----------------------------------------------------------------------------
(* The operands of the residual addition.                                 *)

\* index of the tape entry of this module, 0 when it has not been applied
EntryOf(name) ==
  IF \E k \in 1 .. Len(tape) : tape[k].who = name
    THEN CHOOSE k \in 1 .. Len(tape) : tape[k].who = name
    ELSE 0

\* the addition just applied reads the tensors C8 names
AddOperands ==
    (Applied /\ Last.op = "add") =>
      LET main == Last.args[1]
          other == Last.args[2]
          scope == tape[main].who.scope
          bn0 == EntryOf(ModName(scope, "batchnorm", 0))
          conv0 == EntryOf(ModName(scope, "conv", 0))
          bn1 == EntryOf(ModName(scope, "batchnorm", 1))
          blockIn == tape[bn0].args[1]
      IN  /\ tape[main].op = "conv"
          /\ tape[main].who = ModName(scope, "conv", 1)
          /\ scope.layer >= 0
          /\ bn0 > 0 /\ conv0 > 0 /\ bn1 > 0
          /\ blockIn = bn0 - 1
          /\ tape[blockIn].op = "add" \/ tape[blockIn].who.base = "init_conv"
          /\ IF Len(BlockAt(<<scope.layer, scope.block>>).shortcut) = 1
               THEN /\ tape[other].op = "conv"
                    /\ tape[other].who = ModName(scope, "shortcut", -1)
                    /\ LET captured == tape[other].args[1] IN
                         /\ tape[captured].op = "act"
                         /\ tape[captured].args = <<bn0>>
                         /\ tape[conv0].args = <<captured>>
                         /\ captured # blockIn
                         /\ captured < conv0 /\ conv0 < bn1
               ELSE other = blockIn

\* what orig_x is bound to at each position inside a block
CaptureOnce ==
  InBlock =>
    IF Len(BlockAt(<<layer_num, blk>>).shortcut) = 0
         \/ (i = 0 /\ pc \in {"block_bn", "block_act"})
      THEN orig_x = net
      ELSE /\ orig_x.id = net.id + 2
           /\ tape[orig_x.id].op = "act"
           /\ tape[orig_x.id].args = <<net.id + 1>>
           /\ tape[net.id + 1].op = "bn"
           /\ tape[net.id + 1].who.idx = 0
           /\ tape[net.id + 1].args = <<net.id>>

(* C8: the second operand of a block's residual addition is, in a block    *)
(* with a projection shortcut, the shortcut convolution of the tensor that *)
(* stage 0's activation returned (the one stage 0's convolution reads,     *)
(* not the block input and not a stage-1 tensor), and in a block without   *)
(* one the block input itself; orig_x is rebound only by stage 0 of a      *)
(* block that has a shortcut.                                              *)
C8_ShortcutInput == AddOperands /\ CaptureOnce

C8_Witness ==
  /\ pc = "call_loop"
  /\ layer_num = 1
  /\ blk = 2
  /\ \E j \in 1 .. Len(tape), k \in 1 .. Len(tape) :
       /\ tape[j].op = "add" /\ tape[k].op = "add"
       /\ tape[tape[j].args[2]].who.base = "shortcut"
       /\ tape[tape[tape[j].args[2]].args[1]].op = "act"
       /\ tape[tape[k].args[2]].op = "add"
       /\ k = Len(tape)

----------------------------------------------------------------------------
(* The order of a forward pass, written out from the configuration.       *)

Step(op, who) == [op |-> op, who |-> who]

BlockOrder(id) ==
  LET scope == [layer |-> id[1], block |-> id[2]] IN
    <<Step("bn", ModName(scope, "batchnorm", 0)),
      Step("act", FnRef(activation)),
      Step("conv", ModName(scope, "conv", 0)),
      Step("bn", ModName(scope, "batchnorm", 1)),
      Step("act", FnRef(activation)),
      Step("conv", ModName(scope, "conv", 1))>>
    \o (IF id[2] = 0 THEN <<Step("conv", ModName(scope, "shortcut", -1))>>
                     ELSE <<>>)
    \o <<Step("add", FnRef("add"))>>

\* the blocks in the order group 0, 1, 2 and, within a group, by index
RECURSIVE BlocksOrder(_, _)
BlocksOrder(g, b) ==
  IF g > 2 THEN <<>>
  ELSE IF <<g, b>> \in BlockIds THEN BlockOrder(<<g, b>>) \o BlocksOrder(g, b + 1)
  ELSE BlocksOrder(g + 1, 0)

ExpectedOrder ==
  <<Step("conv", ModName(TopScope, "init_conv", -1))>>
  \o BlocksOrder(0, 0)
  \o <<Step("bn", ModName(TopScope, "batchnorm", -1)),
       Step("act", FnRef(activation)),
       Step("mean", FnRef("mean")),
       Step("linear", ModName(TopScope, "logits", -1))>>

\* the sub-modules the network owns
ModuleNames ==
  {self_conv[1].name, self_bn[1].name, self_linear[1].name}
  \cup UNION {{BlockAt(id).bn_modules[s].name : s \in DOMAIN BlockAt(id).bn_modules}
               \cup {BlockAt(id).conv_modules[s].name : s \in DOMAIN BlockAt(id).conv_modules}
               \cup {BlockAt(id).shortcut[s].name : s \in 1 .. Len(BlockAt(id).shortcut)}
              : id \in BlockIds}

(* C9: the primitives of a forward pass are applied in one order: the      *)
(* initial convolution; for the groups in order and the blocks of a group  *)
(* in order, batch-norm, activation, convolution of stage 0, then of       *)
(* stage 1, the shortcut convolution if the block has one, the addition;   *)
(* then the final batch-norm, the activation, the spatial mean, the linear *)
(* layer.  Each primitive reads the tensor the order hands it, every       *)
(* sub-module is applied once, and every batch-norm gets the caller's      *)
(* keyword arguments.                                                      *)
C9_SequentialOrder ==
  InCall =>
   LET expected == ExpectedOrder IN
    /\ Len(tape) <= Len(expected)
    /\ Applied =>
         /\ Step(Last.op, Last.who) = expected[Len(tape)]
         /\ Last.kw = IF Last.op = "bn" THEN norm_kwargs ELSE <<>>
         /\ (Last.op \in {"bn", "act", "mean", "linear"}
               \/ Last.who.base \in {"conv", "init_conv"})
              => Last.args = <<Len(tape) - 1>>
    /\ pc = "returned" =>
         /\ Len(tape) = Len(expected)
         /\ \A k \in 1 .. Len(tape) : Step(tape[k].op, tape[k].who) = expected[k]
         /\ net.id = Len(tape)
         /\ \A m \in ModuleNames :
              Cardinality({k \in 1 .. Len(tape) : tape[k].who = m}) = 1
         /\ Len(tape) = Cardinality(ModuleNames) + 2 * Cardinality(BlockIds) + 1
                          + Cardinality(BlockIds) + 1

C9_Witness ==
  /\ pc = "returned"
  /\ depth = 16
  /\ norm_kwargs = <<[is_training |-> TRUE]>>
  /\ Len(tape) = 1 + 6 * 7 + 3 + 4
  /\ tape[1].who.base = "init_conv"
  /\ tape[Len(tape)].who.base = "logits"
  /\ tape[Len(tape) - 3].kw = norm_kwargs

----------------------------------------------------------------------------
(* C7: mnist_normalize returns an array whose batch and channel axes are   *)
(* those of its argument and whose two spatial axes are 4 longer; the      *)
(* element at (n, h, w, c) is (v - 0.5) * 2 where v is the argument's      *)
(* element at (n, h-2, w-2, c) if there is one and 0 otherwise.  So an     *)
(* all-zero (N, 28, 28, 1) argument gives an all -1.0 (N, 32, 32, 1)       *)
(* result, and 0 and 1 are mapped to -1 and 1.  Values count halves.       *)
C7_MnistNormalize ==
  mnist_pc = "returned" =>
    LET out == mnist_out[1]
        shape == raw_image.shape
        padded(p) == IF p[2] \in 2 .. shape[2] + 1 /\ p[3] \in 2 .. shape[3] + 1
                       THEN raw_image.data[<<p[1], p[2] - 2, p[3] - 2, p[4]>>]
                       ELSE 0
    IN  /\ out.shape = <<shape[1], shape[2] + 4, shape[3] + 4, shape[4]>>
        /\ DOMAIN out.data = Indices(out.shape)
        /\ \A p \in DOMAIN out.data : out.data[p] = 2 * padded(p) - 2
        /\ \A p \in DOMAIN raw_image.data :
             LET q == <<p[1], p[2] + 2, p[3] + 2, p[4]>> IN
               /\ raw_image.data[p] = 0 => out.data[q] = -2
               /\ raw_image.data[p] = 2 => out.data[q] = 2
        /\ (SubSeq(shape, 2, 4) = <<28, 28, 1>>
              /\ \A p \in DOMAIN raw_image.data : raw_image.data[p] = 0)
             => /\ out.shape = <<shape[1], 32, 32, 1>>
                /\ \A p \in DOMAIN out.data : out.data[p] = -2

C7_Witness ==
  /\ mnist_pc = "returned"
  /\ raw_image.shape = <<1, 28, 28, 1>>
  /\ \A p \in DOMAIN raw_image.data : raw_image.data[p] = 0
  /\ mnist_out[1].shape = <<1, 32, 32, 1>>
  /\ \A p \in Indices(<<1, 32, 32, 1>>) : mnist_out[1].data[p] = -2

====
